---- MODULE Spec2Model ----
(***************************************************************************)
(* Model of imflow's image store (src/src/store.rs): the two caches, the   *)
(* in-flight set, the worker pool and the completion channel, together     *)
(* with the rating accessor of src/src/image.rs.                           *)
(*                                                                         *)
(* An ImageData identity is modelled by its 1-based position in the sorted *)
(* catalog (paths are unique, the other fields are derived from the path). *)
(* An ImflowImageBuffer is a record [pixels, rating]: pixels stands for    *)
(* width/height/rgba_buffer and is <<identity, tier>>.                     *)
(* current_image_id keeps the source's 0-based value.                      *)
(***************************************************************************)
EXTENDS Integers, Sequences, FiniteSets, TLC

\* ---- program constants ----
PRELOAD_NEXT_IMAGE_N == 16
ThreadPoolSize == 32
MaxI32 == 2147483647
MinI32 == (-MaxI32) - 1

\* ---- bounds of the model ----
MaxImages == 2        \* catalog lengths 1..MaxImages in Spec
MaxNavImages == 4     \* catalog lengths 1..MaxNavImages in SpecNav
LongLen == 18         \* catalog length in SpecLong (longer than the prefetch window)
MaxRating == 1        \* ratings 0..MaxRating on disk and as set_rating arguments
MaxStep == 2          \* small next_image deltas -MaxStep..MaxStep (besides the i32 extremes)
MaxOutstanding == 1   \* SpecLong: completions a worker may find undrained and still start a job

MaxDirEntries == 2    \* SpecStart: entries in the directory the program is started on
PoolLen == 36         \* catalog length in SpecPool (more jobs than the pool has workers)
MaxDim == 2           \* SpecDecode: raw JPEG widths and heights 1..MaxDim

Ratings == 0..MaxRating
Deltas == {MinI32, MaxI32} \cup ((-MaxStep)..MaxStep)

VARIABLES
    input,                     \* the files the program is started on: directory entries, metadata
    image_texture,             \* app.rs: pixels uploaded to state.image_texture, <<>> before the first upload
    available_images,          \* Vec<ImageData>: the catalog, <<1, .., n>>
    current_image_id,          \* usize cursor, 0-based
    current_image_path,        \* ImageData of the current image
    loaded_images,             \* HashMap: full-resolution cache
    loaded_images_thumbnails,  \* HashMap: thumbnail cache
    currently_loading,         \* HashSet: in-flight set
    pool_queue,                \* ThreadPool: jobs submitted and not started (FIFO)
    pool_active,               \* ThreadPool: jobs running, identity -> number of jobs
    loader_channel,            \* mpsc channel: completions sent and not received
    rating_on_disk,            \* the metadata of every catalog file, as rexiv2 reads it
    panicked,                  \* the consumer thread has panicked (process is gone)
    pc,                        \* "idle", or "draining" inside check_loaded_images
    submitted,                 \* history: number of jobs ever submitted per identity
    last                       \* history: the last consumer operation and what it did

vars == <<input, image_texture, available_images, current_image_id, current_image_path, loaded_images,
          loaded_images_thumbnails, currently_loading, pool_queue, pool_active,
          loader_channel, rating_on_disk, panicked, pc, submitted, last>>

\* ---- helpers ----
Range(s) == {s[i] : i \in 1..Len(s)}

Min(a, b) == IF a < b THEN a ELSE b

Max(a, b) == IF a > b THEN a ELSE b

Occurrences(s, x) == Cardinality({i \in 1..Len(s) : s[i] = x})

RECURSIVE SumOver(_, _)
SumOver(f, S) == IF S = {} THEN 0
                 ELSE LET x == CHOOSE y \in S : TRUE IN f[x] + SumOver(f, S \ {x})

\* HashMap::insert
Insert(map, key, value) ==
    [k \in (DOMAIN map) \cup {key} |-> IF k = key THEN value ELSE map[k]]

\* ---- src/src/image.rs ----
\* What rexiv2 finds in a file: whether Metadata::new_from_path succeeds, and
\* the Xmp.xmp.Rating tag, <<r>> when it is set and <<>> when it is absent.
File(rating) == [readable |-> TRUE, tags |-> <<rating>>]

\* Metadata::get_tag_numeric: the value of the tag, 0 when the tag is not set
get_tag_numeric(file) == IF file.tags = <<>> THEN 0 ELSE file.tags[1]

\* get_rating: the Err arm of the match is panic!
get_rating_panics(disk, image) == ~disk[image].readable

\* get_rating: the Ok arm
get_rating(disk, image) == get_tag_numeric(disk[image])

load_image(disk, image) == [pixels |-> <<image, "full">>, rating |-> get_rating(disk, image)]

load_thumbnail(disk, image) ==
    [pixels |-> <<image, "thumbnail">>, rating |-> get_rating(disk, image)]

\* image::metadata::Orientation
Orientations ==
    {"NoTransforms", "Rotate90", "Rotate180", "Rotate270", "FlipHorizontal",
     "FlipVertical", "Rotate90FlipH", "Rotate270FlipH"}

swap_wh_rotations_only(width, height, orientation) ==
    IF orientation \in {"Rotate90", "Rotate270"}
    THEN <<height, width>>
    ELSE <<width, height>>

swap_wh(width, height, orientation) ==
    IF orientation \in {"Rotate90", "Rotate270", "Rotate90FlipH", "Rotate270FlipH"}
    THEN <<height, width>>
    ELSE <<width, height>>

\* load_image, Jpg branch, on a file whose header gives width and height: the
\* rating is read first, the buffer is rotated and its dimensions swapped
load_image_Jpg(disk, image, width, height) ==
    LET wh == swap_wh(width, height, image.orientation)
    IN [width |-> wh[1], height |-> wh[2], rating |-> get_rating(disk, image)]

\* ---- src/src/image.rs: the catalog scan ----
\* Path::extension() of a name without a dot is None
NoExtension == ""

Extensions == {"jpg", "JPEG", "heic", "HEIF", "jxl", "JXL", "png", NoExtension}

\* What a directory entry can be: a regular file with readable metadata and any
\* of the extensions, an image or text file whose metadata cannot be read, a
\* subdirectory.
EntryKinds ==
    {[is_file |-> TRUE, extension |-> e, metadata |-> TRUE] : e \in Extensions}
        \cup {[is_file |-> TRUE, extension |-> e, metadata |-> FALSE] :
                 e \in {"jpg", "HEIF", "txt"}}
        \cup {[is_file |-> FALSE, extension |-> e, metadata |-> FALSE] :
                 e \in {"jpg", NoExtension}}

\* an entry's name is its rank in the lexicographic order of the paths
DirEntries ==
    {[name |-> k, is_file |-> x.is_file, extension |-> x.extension,
      metadata |-> x.metadata] : k \in 1..MaxDirEntries, x \in EntryKinds}

\* fs::read_dir: the entries in the order the file system lists them
Directories ==
    UNION {{d \in [1..n -> DirEntries] :
               \A i, j \in 1..n : i # j => d[i].name # d[j].name} :
           n \in 0..MaxDirEntries}

to_ascii_lowercase(extension) ==
    CASE extension = "JPEG" -> "jpeg"
      [] extension = "HEIF" -> "heif"
      [] extension = "JXL" -> "jxl"
      [] OTHER -> extension

\* get_format: path.extension().unwrap() on a file without extension
get_format_panics(path) == path.is_file /\ path.extension = NoExtension

\* get_format: <<format>> for Some(format), <<>> for None
get_format(path) ==
    IF ~path.is_file THEN <<>>
    ELSE LET extension == to_ascii_lowercase(path.extension)
         IN IF extension \in {"heic", "heif"} THEN <<"Heif">>
            ELSE IF extension \in {"jpg", "jpeg"} THEN <<"Jpg">>
            ELSE IF extension \in {"jxl"} THEN <<"Jxl">>
            ELSE <<>>

\* the ImageData built for a retained path
ImageData(path, format) == [path |-> path.name, format |-> format]

\* Itertools::sorted on the paths
RECURSIVE sorted(_)
sorted(paths) ==
    IF paths = <<>> THEN <<>>
    ELSE LET i == CHOOSE i \in 1..Len(paths) :
                      \A j \in 1..Len(paths) : paths[i].name <= paths[j].name
         IN <<paths[i]>> \o sorted(SubSeq(paths, 1, i - 1) \o SubSeq(paths, i + 1, Len(paths)))

\* the closure of filter_map: the expect on Metadata::new_from_path fails
filter_map_panics(path) == ~path.metadata

\* filter_map(..).collect() over the sorted paths; ok is FALSE when the scan
\* panicked, images is what had been collected
RECURSIVE filter_map(_, _)
filter_map(paths, images) ==
    IF paths = <<>> THEN [ok |-> TRUE, images |-> images]
    ELSE LET path == Head(paths)
         IN IF get_format_panics(path) THEN [ok |-> FALSE, images |-> images]
            ELSE IF get_format(path) = <<>> THEN filter_map(Tail(paths), images)
            ELSE IF filter_map_panics(path) THEN [ok |-> FALSE, images |-> images]
            ELSE filter_map(Tail(paths),
                            Append(images, ImageData(path, get_format(path)[1])))

load_available_images(dir) == filter_map(sorted(dir), <<>>)

\* the files of a directory that get_format retains, as identities
Retained(dir) ==
    {ImageData(dir[i], get_format(dir[i])[1]) :
        i \in {j \in DOMAIN dir : ~get_format_panics(dir[j]) /\ get_format(dir[j]) # <<>>}}

\* the entry of a directory that an identity was built from
EntryOf(dir, image) == dir[CHOOSE i \in DOMAIN dir : dir[i].name = image.path]

\* ---- src/src/store.rs ----
\* The part of the store request_load works on, threaded through the calls of
\* one consumer operation; jobs and hits are history of that operation.
LoadState(loading, queue) ==
    [currently_loading |-> loading, pool_queue |-> queue, jobs |-> <<>>, hits |-> {}]

request_load_no_record(loaded, s, path) ==
    IF path \in DOMAIN loaded \/ path \in s.currently_loading
    THEN [s EXCEPT !.hits = @ \cup {path}]
    ELSE [s EXCEPT !.pool_queue = Append(@, path),
                   !.jobs = Append(@, path)]

request_load_unchecked(loaded, s, path) ==
    IF path \in DOMAIN loaded
    THEN s
    ELSE [s EXCEPT !.currently_loading = @ \cup {path},
                   !.pool_queue = Append(@, path),
                   !.jobs = Append(@, path)]

request_load_unconditional(loaded, s, path) ==
    [s EXCEPT !.currently_loading = @ \cup {path},
              !.pool_queue = Append(@, path),
              !.jobs = Append(@, path)]

request_load_ignores_cache(loaded, s, path) ==
    IF path \in s.currently_loading
    THEN [s EXCEPT !.hits = @ \cup {path}]
    ELSE [s EXCEPT !.currently_loading = @ \cup {path},
                   !.pool_queue = Append(@, path),
                   !.jobs = Append(@, path)]

request_load(loaded, s, path) ==
    IF path \in DOMAIN loaded \/ path \in s.currently_loading
    THEN [s EXCEPT !.hits = @ \cup {path}]
    ELSE [s EXCEPT !.currently_loading = @ \cup {path},
                   !.pool_queue = Append(@, path),
                   !.jobs = Append(@, path)]

\* the loop body of preload_next_images over positions i, i+1, .. (k of them left)
RECURSIVE preload_loop(_, _, _, _, _)
preload_loop(loaded, images, s, i, k) ==
    IF k = 0 \/ i > Len(images)
    THEN s
    ELSE preload_loop(loaded, images, request_load(loaded, s, images[i]), i + 1, k - 1)

preload_next_images_one_more(loaded, images, cursor, s, n) ==
    preload_loop(loaded, images, s, cursor + 1, n + 1)

preload_next_images_skip_one(loaded, images, cursor, s, n) ==
    preload_loop(loaded, images, s, cursor + 2, n)

preload_next_images(loaded, images, cursor, s, n) ==
    preload_loop(loaded, images, s, cursor + 1, n)

get_current_image(loaded, path) ==
    IF path \in DOMAIN loaded THEN <<loaded[path]>> ELSE <<>>


\* i32 addition `current_image_id as i32 + change`: it overflows exactly when the
\* mathematical sum leaves [MinI32, MaxI32] (tested without forming that sum).
I32AddOverflows(a, b) ==
    \/ b > 0 /\ a > MaxI32 - b
    \/ b < 0 /\ a < MinI32 - b

\* the two's-complement result of the addition (what a release build computes)
I32WrappingAdd(a, b) ==
    IF b > 0 /\ a > MaxI32 - b THEN MinI32 + ((a - (MaxI32 - b)) - 1)
    ELSE IF b < 0 /\ a < MinI32 - b THEN MaxI32 - (((MinI32 - b) - a) - 1)
    ELSE a + b

clamp(x, lo, hi) == IF x < lo THEN lo ELSE IF x > hi THEN hi ELSE x

next_cursor_clamp_len(cursor, change, len) ==
    clamp(I32WrappingAdd(cursor, change), 0, len)

\* the new value of current_image_id in next_image
next_cursor(cursor, change, len) ==
    clamp(I32WrappingAdd(cursor, change), 0, len - 1)

next_image_path_first(images, cursor) == images[1]

\* `new_path` of next_image: the catalog entry at the new cursor
next_image_path(images, cursor) == images[cursor + 1]

next_image_loads_none(loaded, images, cursor, s) == s

\* the request_load calls of next_image: the new current image, then the window
next_image_loads(loaded, images, cursor, s) ==
    LET new_path == images[cursor + 1]
        s1 == IF new_path \notin DOMAIN loaded THEN request_load(loaded, s, new_path) ELSE s
    IN preload_next_images(loaded, images, cursor, s1, PRELOAD_NEXT_IMAGE_N)

\* the cache updates of set_rating (the two `if let Some(..)` blocks)
with_rating_every_entry(cache, path, rating) ==
    [k \in DOMAIN cache |-> [cache[k] EXCEPT !.rating = rating]]

with_rating(cache, path, rating) ==
    IF path \in DOMAIN cache THEN [cache EXCEPT ![path].rating = rating] ELSE cache

set_rating_caches_full_only(loaded, thumbnails, path, rating) ==
    [full |-> with_rating(loaded, path, rating), thumbnail |-> thumbnails]

set_rating_caches(loaded, thumbnails, path, rating) ==
    [full |-> with_rating(loaded, path, rating),
     thumbnail |-> with_rating(thumbnails, path, rating)]

\* get_current_rating: the unwrap on the thumbnail lookup succeeds
get_current_rating_unwraps(loaded, thumbnails, path) ==
    path \in DOMAIN loaded \/ path \in DOMAIN thumbnails

get_current_rating_thumbnail_first(loaded, thumbnails, path) ==
    IF path \in DOMAIN thumbnails
    THEN thumbnails[path].rating
    ELSE get_current_image(loaded, path)[1].rating

get_current_rating(loaded, thumbnails, path) ==
    IF get_current_image(loaded, path) # <<>>
    THEN get_current_image(loaded, path)[1].rating
    ELSE thumbnails[path].rating

\* the thumbnail preload loop of new
new_thumbnails_first_only(disk, images) ==
    [p \in {images[1]} |-> load_thumbnail(disk, p)]

new_thumbnails(disk, images) ==
    [p \in Range(images) |-> load_thumbnail(disk, p)]

\* the buffer goes to the in-flight identity that comes first in the catalog
drain_insert_positional(loaded, loading, msg) ==
    LET key == IF loading = {} THEN msg[1]
               ELSE CHOOSE k \in loading : \A j \in loading : k <= j
    IN [loaded_images |-> Insert(loaded, key, msg[2]),
        currently_loading |-> loading \ {key}]

\* the identity is not taken out of the in-flight set
drain_insert_keeps_in_flight(loaded, loading, msg) ==
    [loaded_images |-> Insert(loaded, msg[1], msg[2]),
     currently_loading |-> loading]

\* one iteration of the loop of check_loaded_images on a received completion
drain_insert(loaded, loading, msg) ==
    [loaded_images |-> Insert(loaded, msg[1], msg[2]),
     currently_loading |-> loading \ {msg[1]}]

\* `while let Ok(..) = try_recv()`: the loop goes on while a completion is there
drain_continues_once(channel, iters) == channel # <<>> /\ iters = 0

drain_continues(channel, iters) == channel # <<>>

Bump(count, jobs) == [i \in DOMAIN count |-> count[i] + Occurrences(jobs, i)]

EmptyMap == [k \in {} |-> 0]

\* ---- state after ImageStore::new on a catalog of a length in lens ----
InitFor(lens) ==
    \E n \in lens :
        LET images == [i \in 1..n |-> i]
            disk == [i \in 1..n |-> File(i % (MaxRating + 1))]
            full == Insert(EmptyMap, images[1], load_image(disk, images[1]))
            s == preload_next_images(full, images, 0, LoadState({}, <<>>),
                                     PRELOAD_NEXT_IMAGE_N)
        IN /\ input = [i \in 1..n |-> [name |-> i, is_file |-> TRUE, extension |-> "jpg",
                                       metadata |-> TRUE]]
           /\ image_texture = <<>>
           /\ available_images = images
           /\ rating_on_disk = disk
           /\ current_image_id = 0
           /\ current_image_path = images[1]
           /\ loaded_images_thumbnails = new_thumbnails(disk, images)
           /\ loaded_images = full
           /\ currently_loading = s.currently_loading
           /\ pool_queue = s.pool_queue
           /\ pool_active = [i \in 1..n |-> 0]
           /\ loader_channel = <<>>
           /\ panicked = FALSE
           /\ pc = "idle"
           /\ submitted = Bump([i \in 1..n |-> 0], s.jobs)
           /\ last = [op |-> "new", jobs |-> s.jobs, hits |-> s.hits]

Init == InitFor(1..MaxImages)

InitNav == InitFor(1..MaxNavImages)

InitLong == InitFor({LongLen})

\* the delta is one of the i32 extremes
Far(change) == change \in {MinI32, MaxI32}

\* the consumer thread is between two store calls
Idle == pc = "idle" /\ ~panicked

\* the number of jobs the pool's workers are running
Active == SumOver(pool_active, DOMAIN pool_active)

\* pool.execute hands the job to the pool's unbounded job channel: the send
\* returns at once, however many workers are busy and jobs are queued
execute_waits_for_worker(active, queue) == active >= ThreadPoolSize

execute_waits(active, queue) == FALSE

\* the calls of pool.execute made by one consumer operation all return
Enqueues(s) == ~(s.jobs # <<>> /\ execute_waits(Active, pool_queue))

\* ---- consumer operations ----
NextImage(change) ==
    /\ Idle
    /\ \/ \* debug build: the overflowing addition panics
          /\ I32AddOverflows(current_image_id, change)
          /\ panicked' = TRUE
          /\ last' = [op |-> "next_image", far |-> Far(change),
                      jobs |-> <<>>, hits |-> {}]
          /\ UNCHANGED <<input, image_texture, available_images, current_image_id, current_image_path,
                         loaded_images, loaded_images_thumbnails, currently_loading,
                         pool_queue, pool_active, loader_channel, rating_on_disk,
                         pc, submitted>>
       \/ \* no overflow, or release build: the addition wraps
          LET id == next_cursor(current_image_id, change, Len(available_images))
          IN /\ current_image_id' = id
             /\ IF id + 1 \in DOMAIN available_images
                THEN LET s == next_image_loads(loaded_images, available_images, id,
                                  LoadState(currently_loading, pool_queue))
                     IN /\ Enqueues(s)
                        /\ current_image_path' = next_image_path(available_images, id)
                        /\ currently_loading' = s.currently_loading
                        /\ pool_queue' = s.pool_queue
                        /\ submitted' = Bump(submitted, s.jobs)
                        /\ last' = [op |-> "next_image", far |-> Far(change),
                                    jobs |-> s.jobs, hits |-> s.hits]
                        /\ UNCHANGED panicked
                ELSE \* available_images[current_image_id]: index out of bounds
                     /\ panicked' = TRUE
                     /\ last' = [op |-> "next_image", far |-> Far(change),
                                 jobs |-> <<>>, hits |-> {}]
                     /\ UNCHANGED <<current_image_path, currently_loading, pool_queue,
                                    submitted>>
             /\ UNCHANGED <<input, image_texture, available_images, loaded_images, loaded_images_thumbnails,
                            pool_active, loader_channel, rating_on_disk, pc>>

RequestLoad(path) ==
    /\ Idle
    /\ LET s == request_load(loaded_images, LoadState(currently_loading, pool_queue), path)
       IN /\ Enqueues(s)
          /\ currently_loading' = s.currently_loading
          /\ pool_queue' = s.pool_queue
          /\ submitted' = Bump(submitted, s.jobs)
          /\ last' = [op |-> "request_load", arg |-> path, jobs |-> s.jobs, hits |-> s.hits]
    /\ UNCHANGED <<input, image_texture, available_images, current_image_id, current_image_path, loaded_images,
                   loaded_images_thumbnails, pool_active, loader_channel, rating_on_disk,
                   panicked, pc>>

SetRating(rating) ==
    /\ Idle
    /\ \/ \* the metadata is read, tagged and saved
          LET c == set_rating_caches(loaded_images, loaded_images_thumbnails,
                                     current_image_path, rating)
          IN /\ rating_on_disk' = [rating_on_disk EXCEPT ![current_image_path] = File(rating)]
             /\ loaded_images' = c.full
             /\ loaded_images_thumbnails' = c.thumbnail
             /\ last' = [op |-> "set_rating", arg |-> rating, ok |-> TRUE]
             /\ UNCHANGED panicked
       \/ \* new_from_path, set_tag_numeric or save_to_file fails: unwrap / panic!
          /\ panicked' = TRUE
          /\ last' = [op |-> "set_rating", arg |-> rating, ok |-> FALSE]
          /\ UNCHANGED <<rating_on_disk, loaded_images, loaded_images_thumbnails>>
    /\ UNCHANGED <<input, image_texture, available_images, current_image_id, current_image_path,
                   currently_loading, pool_queue, pool_active, loader_channel, pc,
                   submitted>>

GetCurrentRating ==
    /\ Idle
    /\ IF get_current_rating_unwraps(loaded_images, loaded_images_thumbnails,
                                     current_image_path)
       THEN /\ last' = [op |-> "get_current_rating",
                        result |-> get_current_rating(loaded_images,
                                       loaded_images_thumbnails, current_image_path)]
            /\ UNCHANGED panicked
       ELSE /\ last' = [op |-> "get_current_rating", result |-> -1]
            /\ panicked' = TRUE
    /\ UNCHANGED <<input, image_texture, available_images, current_image_id, current_image_path, loaded_images,
                   loaded_images_thumbnails, currently_loading, pool_queue, pool_active,
                   loader_channel, rating_on_disk, pc, submitted>>

GetThumbnail ==
    /\ Idle
    /\ IF current_image_path \in DOMAIN loaded_images_thumbnails
       THEN /\ last' = [op |-> "get_thumbnail", decoded |-> FALSE,
                        result |-> loaded_images_thumbnails[current_image_path]]
            /\ UNCHANGED loaded_images_thumbnails
       ELSE LET buf == load_thumbnail(rating_on_disk, current_image_path)
            IN /\ loaded_images_thumbnails' =
                      Insert(loaded_images_thumbnails, current_image_path, buf)
               /\ last' = [op |-> "get_thumbnail", decoded |-> TRUE, result |-> buf]
    /\ UNCHANGED <<input, image_texture, available_images, current_image_id, current_image_path, loaded_images,
                   currently_loading, pool_queue, pool_active, loader_channel,
                   rating_on_disk, panicked, pc, submitted>>

\* check_loaded_images, one try_recv at a time (workers send while it runs)
CheckCall ==
    /\ Idle
    /\ pc' = "draining"
    /\ last' = [op |-> "check_loaded_images", returned |-> FALSE, iters |-> 0,
                entry |-> [loader_channel |-> loader_channel,
                           loaded_images |-> loaded_images,
                           loaded_images_thumbnails |-> loaded_images_thumbnails,
                           currently_loading |-> currently_loading,
                           current_image_id |-> current_image_id]]
    /\ UNCHANGED <<input, image_texture, available_images, current_image_id, current_image_path, loaded_images,
                   loaded_images_thumbnails, currently_loading, pool_queue, pool_active,
                   loader_channel, rating_on_disk, panicked, submitted>>

CheckRecv ==
    /\ pc = "draining"
    /\ drain_continues(loader_channel, last.iters)
    /\ LET msg == Head(loader_channel)
           d == drain_insert(loaded_images, currently_loading, msg)
       IN /\ loaded_images' = d.loaded_images
          /\ currently_loading' = d.currently_loading
          /\ loader_channel' = Tail(loader_channel)
          /\ last' = [last EXCEPT !.iters = @ + 1]
    /\ UNCHANGED <<input, image_texture, available_images, current_image_id, current_image_path,
                   loaded_images_thumbnails, pool_queue, pool_active, rating_on_disk,
                   panicked, pc, submitted>>

CheckReturn ==
    /\ pc = "draining"
    /\ ~drain_continues(loader_channel, last.iters)
    /\ pc' = "idle"
    /\ last' = [op |-> "check_loaded_images", returned |-> TRUE, iters |-> last.iters,
                pending |-> Len(last.entry.loader_channel),
                in_flight |-> Cardinality(last.entry.currently_loading)]
    /\ UNCHANGED <<input, image_texture, available_images, current_image_id, current_image_path, loaded_images,
                   loaded_images_thumbnails, currently_loading, pool_queue, pool_active,
                   loader_channel, rating_on_disk, panicked, submitted>>

\* ---- worker pool ----
pool_take_newest(queue) == Len(queue)

\* the position in the pool's job queue of the job a free worker takes: the
\* workers receive from one shared FIFO channel
pool_take(queue) == 1

\* an idle worker takes the oldest queued job
WorkerStart ==
    /\ ~panicked
    /\ pool_queue # <<>>
    /\ Active < ThreadPoolSize
    /\ LET i == pool_take(pool_queue)
       IN /\ pool_active' = [pool_active EXCEPT ![pool_queue[i]] = @ + 1]
          /\ pool_queue' = SubSeq(pool_queue, 1, i - 1)
                               \o SubSeq(pool_queue, i + 1, Len(pool_queue))
    /\ UNCHANGED <<input, image_texture, available_images, current_image_id, current_image_path, loaded_images,
                   loaded_images_thumbnails, currently_loading, loader_channel,
                   rating_on_disk, panicked, pc, submitted, last>>

\* the job's closure: load_image (which reads the rating) and tx.send
WorkerSend(path) ==
    /\ ~panicked
    /\ pool_active[path] > 0
    /\ pool_active' = [pool_active EXCEPT ![path] = @ - 1]
    /\ loader_channel' = Append(loader_channel, <<path, load_image(rating_on_disk, path)>>)
    /\ UNCHANGED <<input, image_texture, available_images, current_image_id, current_image_path, loaded_images,
                   loaded_images_thumbnails, currently_loading, pool_queue,
                   rating_on_disk, panicked, pc, submitted, last>>

\* load_image panics in the worker (an unwrap on a read or decode error): the
\* job ends without sending, the pool replaces the worker thread
WorkerPanic(path) ==
    /\ ~panicked
    /\ pool_active[path] > 0
    /\ pool_active' = [pool_active EXCEPT ![path] = @ - 1]
    /\ UNCHANGED <<input, image_texture, available_images, current_image_id, current_image_path, loaded_images,
                   loaded_images_thumbnails, currently_loading, pool_queue,
                   loader_channel, rating_on_disk, panicked, pc, submitted, last>>

Next ==
    \/ \E change \in Deltas : NextImage(change)
    \/ \E path \in Range(available_images) : RequestLoad(path)
    \/ \E rating \in Ratings : SetRating(rating)
    \/ GetCurrentRating
    \/ GetThumbnail
    \/ CheckCall
    \/ CheckRecv
    \/ CheckReturn
    \/ WorkerStart
    \/ \E path \in DOMAIN pool_active : WorkerSend(path)
    \/ \E path \in DOMAIN pool_active : WorkerPanic(path)

Spec == Init /\ [][Next]_vars

\* Every operation but the rating write, on catalogs one image longer than Spec's.
NextNav ==
    \/ \E change \in Deltas : NextImage(change)
    \/ \E path \in Range(available_images) : RequestLoad(path)
    \/ GetCurrentRating
    \/ GetThumbnail
    \/ CheckCall
    \/ CheckRecv
    \/ CheckReturn
    \/ WorkerStart
    \/ \E path \in DOMAIN pool_active : WorkerSend(path)
    \/ \E path \in DOMAIN pool_active : WorkerPanic(path)

SpecNav == InitNav /\ [][NextNav]_vars

\* Navigation on a catalog longer than the prefetch window.  The schedules are
\* restricted: the pool runs one job at a time, starts none while
\* MaxOutstanding completions wait in the channel, and steps only between the
\* consumer's calls.  Worker panics (to the store a job that never finishes),
\* rating writes and direct request_load calls are left to Spec and SpecNav.
NextLong ==
    \/ \E change \in Deltas : NextImage(change)
    \/ GetThumbnail
    \/ CheckCall
    \/ CheckRecv
    \/ CheckReturn
    \/ pc = "idle" /\ Active = 0 /\ Len(loader_channel) < MaxOutstanding /\ WorkerStart
    \/ \E path \in DOMAIN pool_active : pc = "idle" /\ WorkerSend(path)

SpecLong == InitLong /\ [][NextLong]_vars

\* ---- src/src/app.rs: the event loop around the store ----
\* check_loaded_images run to its return on the completions found in the channel
RECURSIVE drain_all(_, _, _)
drain_all(loaded, loading, channel) ==
    IF channel = <<>>
    THEN [loaded_images |-> loaded, currently_loading |-> loading]
    ELSE LET d == drain_insert(loaded, loading, Head(channel))
         IN drain_all(d.loaded_images, d.currently_loading, Tail(channel))

\* get_thumbnail: the cached entry, decoded first when it is missing
get_thumbnail(thumbnails, disk, path) ==
    IF path \in DOMAIN thumbnails THEN thumbnails
    ELSE Insert(thumbnails, path, load_thumbnail(disk, path))

\* update_texture: drain, then upload the full buffer if there is one and the
\* thumbnail otherwise
update_texture(loaded, thumbnails, loading, channel, disk, path) ==
    LET d == drain_all(loaded, loading, channel)
        full == get_current_image(d.loaded_images, path)
        thumbs == IF full # <<>> THEN thumbnails ELSE get_thumbnail(thumbnails, disk, path)
    IN [loaded_images |-> d.loaded_images,
        currently_loading |-> d.currently_loading,
        loaded_images_thumbnails |-> thumbs,
        image_texture |-> IF full # <<>> THEN full[1].pixels ELSE thumbs[path].pixels]

\* the keys of a RedrawRequested event that move the cursor, and no key at all
Keys == {"None", "ArrowLeft", "ArrowRight"}

KeyChange(key) == IF key = "ArrowLeft" THEN -1 ELSE 1

\* a completion for the identity waits in the channel
Completed(path) == \E i \in 1..Len(loader_channel) : loader_channel[i][1] = path

\* set_window: the window is created and the first texture uploaded
SetWindow ==
    /\ Idle
    /\ image_texture = <<>>
    /\ LET u == update_texture(loaded_images, loaded_images_thumbnails, currently_loading,
                               loader_channel, rating_on_disk, current_image_path)
       IN /\ loaded_images' = u.loaded_images
          /\ currently_loading' = u.currently_loading
          /\ loaded_images_thumbnails' = u.loaded_images_thumbnails
          /\ image_texture' = u.image_texture
    /\ loader_channel' = <<>>
    /\ last' = [op |-> "set_window"]
    /\ UNCHANGED <<input, available_images, current_image_id, current_image_path,
                   pool_queue, pool_active, rating_on_disk, panicked, pc, submitted>>

\* window_event(RedrawRequested): handle_redraw draws image_texture and the
\* rating, then the key of the frame is handled (the rating and exit keys are
\* left out), then the next redraw is requested
RedrawRequested(key) ==
    /\ Idle
    /\ image_texture # <<>>
    /\ get_current_rating_unwraps(loaded_images, loaded_images_thumbnails,
                                  current_image_path)
    /\ last' = [op |-> "RedrawRequested", key |-> key,
                completed |-> Completed(current_image_path)]
    /\ IF key = "None"
       THEN UNCHANGED <<image_texture, current_image_id, current_image_path,
                        loaded_images, loaded_images_thumbnails, currently_loading,
                        pool_queue, loader_channel, submitted>>
       ELSE LET id == next_cursor(current_image_id, KeyChange(key), Len(available_images))
                s == next_image_loads(loaded_images, available_images, id,
                                      LoadState(currently_loading, pool_queue))
                u == update_texture(loaded_images, loaded_images_thumbnails,
                                    s.currently_loading, loader_channel, rating_on_disk,
                                    available_images[id + 1])
            IN /\ current_image_id' = id
               /\ current_image_path' = available_images[id + 1]
               /\ pool_queue' = s.pool_queue
               /\ submitted' = Bump(submitted, s.jobs)
               /\ loaded_images' = u.loaded_images
               /\ currently_loading' = u.currently_loading
               /\ loaded_images_thumbnails' = u.loaded_images_thumbnails
               /\ image_texture' = u.image_texture
               /\ loader_channel' = <<>>
    /\ UNCHANGED <<input, available_images, pool_active, rating_on_disk, panicked, pc>>

\* The application: the store is driven by the event loop only.
NextUI ==
    \/ SetWindow
    \/ \E key \in Keys : RedrawRequested(key)
    \/ WorkerStart
    \/ \E path \in DOMAIN pool_active : WorkerSend(path)
    \/ \E path \in DOMAIN pool_active : WorkerPanic(path)

SpecUI == InitNav /\ [][NextUI]_vars

\* Navigation by small steps with a scheduler that is fair to the pool and a
\* consumer that keeps calling check_loaded_images: a queued job is started, a
\* started job ends (by sending or by panicking), a call that can be made or
\* continued is.
NextFair ==
    \/ \E change \in (-MaxStep)..MaxStep : NextImage(change)
    \/ CheckCall
    \/ CheckRecv
    \/ CheckReturn
    \/ WorkerStart
    \/ \E path \in DOMAIN pool_active : WorkerSend(path)
    \/ \E path \in DOMAIN pool_active : WorkerPanic(path)

\* a running job for the identity ends
WorkerEnds(path) ==
    /\ path \in DOMAIN pool_active
    /\ (WorkerSend(path) \/ WorkerPanic(path))

SpecFair ==
    /\ InitNav
    /\ [][NextFair]_vars
    /\ WF_vars(CheckCall)
    /\ WF_vars(CheckRecv)
    /\ WF_vars(CheckReturn)
    /\ WF_vars(WorkerStart)
    /\ \A path \in 1..MaxNavImages : WF_vars(WorkerEnds(path))

\* ---- start of the program: main has the directory, nothing is built yet ----
NothingBuilt ==
    /\ image_texture = <<>>
    /\ available_images = <<>>
    /\ current_image_id = 0
    /\ current_image_path = <<>>
    /\ loaded_images_thumbnails = EmptyMap
    /\ loaded_images = EmptyMap
    /\ currently_loading = {}
    /\ pool_queue = <<>>
    /\ pool_active = EmptyMap
    /\ loader_channel = <<>>
    /\ panicked = FALSE
    /\ pc = "main"
    /\ submitted = EmptyMap
    /\ last = [op |-> "main"]

InitMain ==
    /\ input \in Directories
    /\ rating_on_disk = [image \in Retained(input) |->
                            [readable |-> EntryOf(input, image).metadata, tags |-> <<>>]]
    /\ NothingBuilt

\* load_available_images called on the directory
LoadAvailableImages ==
    /\ pc = "main" /\ ~panicked
    /\ LET r == load_available_images(input)
       IN /\ panicked' = ~r.ok
          /\ last' = [op |-> "load_available_images", ok |-> r.ok, result |-> r.images]
    /\ UNCHANGED <<input, image_texture, available_images, current_image_id,
                   current_image_path, loaded_images, loaded_images_thumbnails,
                   currently_loading, pool_queue, pool_active, loader_channel,
                   rating_on_disk, pc, submitted>>

\* ImageStore::new(path): the scan, then the construction of InitFor
New ==
    /\ pc = "main" /\ ~panicked
    /\ LET r == load_available_images(input)
       IN IF ~r.ok \/ r.images = <<>>
          THEN \* the scan panicked, or available_images[0] is out of bounds
               /\ panicked' = TRUE
               /\ last' = [op |-> "new", scanned |-> r.ok, jobs |-> <<>>, hits |-> {}]
               /\ UNCHANGED <<available_images, current_image_path, loaded_images,
                              loaded_images_thumbnails, currently_loading, pool_queue,
                              pool_active, pc, submitted>>
          ELSE LET images == r.images
                   full == Insert(EmptyMap, images[1], load_image(rating_on_disk, images[1]))
                   s == preload_next_images(full, images, 0, LoadState({}, <<>>),
                                            PRELOAD_NEXT_IMAGE_N)
               IN /\ available_images' = images
                  /\ current_image_path' = images[1]
                  /\ loaded_images_thumbnails' = new_thumbnails(rating_on_disk, images)
                  /\ loaded_images' = full
                  /\ currently_loading' = s.currently_loading
                  /\ pool_queue' = s.pool_queue
                  /\ pool_active' = [image \in Range(images) |-> 0]
                  /\ submitted' = Bump([image \in Range(images) |-> 0], s.jobs)
                  /\ pc' = "idle"
                  /\ last' = [op |-> "new", scanned |-> TRUE, jobs |-> s.jobs, hits |-> s.hits]
                  /\ UNCHANGED panicked
    /\ UNCHANGED <<input, image_texture, current_image_id, loader_channel, rating_on_disk>>

NextStart ==
    \/ LoadAvailableImages
    \/ New

SpecStart == InitMain /\ [][NextStart]_vars

\* ---- the image.rs functions on one JPEG file ----
\* the file cannot be opened by rexiv2, has no rating tag, or has one
FileStates ==
    {[readable |-> FALSE, tags |-> <<>>], [readable |-> TRUE, tags |-> <<>>]}
        \cup {File(rating) : rating \in Ratings}

InitDecode ==
    /\ input \in [image : [path : {1}, format : {"Jpg"}, orientation : Orientations],
                  width : 1..MaxDim, height : 1..MaxDim]
    /\ rating_on_disk \in [{input.image} -> FileStates]
    /\ NothingBuilt

GetRating ==
    /\ pc = "main" /\ ~panicked
    /\ IF get_rating_panics(rating_on_disk, input.image)
       THEN /\ panicked' = TRUE
            /\ last' = [op |-> "get_rating", ok |-> FALSE]
       ELSE /\ last' = [op |-> "get_rating", ok |-> TRUE,
                        rating |-> get_rating(rating_on_disk, input.image)]
            /\ UNCHANGED panicked
    /\ UNCHANGED <<input, image_texture, available_images, current_image_id,
                   current_image_path, loaded_images, loaded_images_thumbnails,
                   currently_loading, pool_queue, pool_active, loader_channel,
                   rating_on_disk, pc, submitted>>

\* load_image on the file (the read and the JPEG decoding succeed)
LoadImage ==
    /\ pc = "main" /\ ~panicked
    /\ IF get_rating_panics(rating_on_disk, input.image)
       THEN /\ panicked' = TRUE
            /\ last' = [op |-> "load_image", ok |-> FALSE]
       ELSE LET buf == load_image_Jpg(rating_on_disk, input.image, input.width,
                                      input.height)
            IN /\ last' = [op |-> "load_image", ok |-> TRUE, rating |-> buf.rating,
                           width |-> buf.width, height |-> buf.height]
               /\ UNCHANGED panicked
    /\ UNCHANGED <<input, image_texture, available_images, current_image_id,
                   current_image_path, loaded_images, loaded_images_thumbnails,
                   currently_loading, pool_queue, pool_active, loader_channel,
                   rating_on_disk, pc, submitted>>

NextDecode ==
    \/ GetRating
    \/ LoadImage

SpecDecode == InitDecode /\ [][NextDecode]_vars

\* ---- the image.rs decode paths: buffer lengths and allocations ----
RoundUp(n, align) == ((n + align - 1) \div align) * align

\* The heap as the decode functions see it: for every allocation, the values
\* that own it (each frees it when dropped) and how often it has been freed.
alloc(heap, a, owner) == Insert(heap, a, [owners |-> {owner}, freed |-> 0])

\* Vec::from_raw_parts(ptr, ..): one more Vec that owns the allocation of ptr
from_raw_parts(heap, a, owner) == [heap EXCEPT ![a].owners = @ \cup {owner}]

\* mem::forget(value): the value goes away without freeing
forget(heap, a, owner) == [heap EXCEPT ![a].owners = @ \ {owner}]

\* a local goes out of scope: its allocation is freed
drop(heap, a, owner) == [heap EXCEPT ![a].owners = @ \ {owner}, ![a].freed = @ + 1]

\* ImflowImageBuffer; rgba_buffer is the Vec<u32>: its allocation and its len
ImflowImageBuffer(width, height, ptr, len, heap) ==
    [width |-> width, height |-> height, rgba_buffer |-> [ptr |-> ptr, len |-> len],
     heap |-> heap]

\* load_image, Jxl branch: PixelFormat {num_channels: 4, align: 8}; the decoder
\* sizes the output for scanlines aligned to 8 bytes, the last one unpadded
JxlAlign == 8

load_image_Jxl_buffer(width, height) ==
    LET len == RoundUp(width * 4, JxlAlign) * (height - 1) + width * 4
        h1 == alloc(EmptyMap, "buffer", "buffer")
        h2 == from_raw_parts(h1, "buffer", "rgba_buffer")
        h3 == forget(h2, "buffer", "buffer")
    IN ImflowImageBuffer(width, height, "buffer", len \div 4, h3)

\* load_image, Jpg branch: vec![0; width * height * 4] moves into the RgbaImage
\* and the DynamicImage; apply_orientation keeps the buffer or replaces it by
\* a rotated one of the same length; the DynamicImage is forgotten
load_image_Jpg_buffer(width, height, orientation) ==
    LET len == width * height * 4
        wh == swap_wh(width, height, orientation)
        h1 == alloc(EmptyMap, "buffer", "dynamic_image")
        h2 == from_raw_parts(h1, "buffer", "rgba_buffer")
        h3 == forget(h2, "buffer", "dynamic_image")
    IN ImflowImageBuffer(wh[1], wh[2], "buffer", len \div 4, h3)

\* libheif pads the rows of a plane to a multiple of 16 bytes
HeifAlign == 16

\* the stride of the interleaved RGBA plane of a decoded image
plane_stride(width, padded) == IF padded THEN RoundUp(width * 4, HeifAlign) ELSE width * 4

\* load_heif: the plane's data is stride bytes per row; u32_slice.to_vec()
\* copies it whole
load_heif(width, height, padded, resize) ==
    LET w == IF resize THEN 640 ELSE width
        h == IF resize THEN 480 ELSE height
        data_len == plane_stride(w, padded) * h
        h1 == alloc(EmptyMap, "image", "image")
        h2 == alloc(h1, "to_vec", "rgba_buffer")
        h3 == drop(h2, "image", "image")
    IN ImflowImageBuffer(w, h, "to_vec", data_len \div 4, h3)

\* image_to_rgba_buffer: flat.to_vec() is a copy, reinterpreted and forgotten;
\* flat is dropped at the end of the function
image_to_rgba_buffer(width, height) ==
    LET len == width * height * 4
        h1 == alloc(EmptyMap, "flat", "flat")
        h2 == alloc(h1, "buffer", "buffer")
        h3 == from_raw_parts(h2, "buffer", "vec")
        h4 == forget(h3, "buffer", "buffer")
        h5 == drop(h4, "flat", "flat")
    IN [ptr |-> "buffer", len |-> len \div 4, heap |-> h5]

\* DynamicImage::resize(640, 480, ..): the largest size of the same aspect
\* ratio that fits, each side rounded and at least 1
Round(a, b) == (2 * a + b) \div (2 * b)

resize(width, height) ==
    IF 640 * height <= 480 * width
    THEN <<640, Max(Round(height * 640, width), 1)>>
    ELSE <<Max(Round(width * 480, height), 1), 480>>

load_thumbnail_full(width, height) ==
    LET wh == resize(width, height)
        v == image_to_rgba_buffer(wh[1], wh[2])
    IN ImflowImageBuffer(wh[1], wh[2], v.ptr, v.len, v.heap)

\* load_thumbnail_exif on a preview of the given size: flat.to_vec() is a
\* copy, reinterpreted; flat and buffer are dropped at the end of the arm
load_thumbnail_exif(width, height) ==
    LET len == width * height * 4
        h1 == alloc(EmptyMap, "flat", "flat")
        h2 == alloc(h1, "buffer", "buffer")
        h3 == from_raw_parts(h2, "buffer", "buffer_u32")
        h4 == drop(h3, "buffer", "buffer")
        h5 == drop(h4, "flat", "flat")
    IN ImflowImageBuffer(width, height, "buffer", len \div 4, h5)

\* load_image: one branch per format
load_image_buffer(file) ==
    CASE file.image.format = "Heif" ->
             load_heif(file.width, file.height, file.padded, FALSE)
      [] file.image.format = "Jxl" -> load_image_Jxl_buffer(file.width, file.height)
      [] file.image.format = "Jpg" ->
             load_image_Jpg_buffer(file.width, file.height, file.image.orientation)

\* load_thumbnail: HEIF is scaled, otherwise the embedded preview if there is
\* one, otherwise the resized full image
load_thumbnail_buffer(file) ==
    IF file.image.format = "Heif"
    THEN load_heif(file.width, file.height, file.padded, TRUE)
    ELSE IF file.preview # <<>>
    THEN load_thumbnail_exif(file.preview[1], file.preview[2])
    ELSE load_thumbnail_full(file.width, file.height)

Formats == {"Jpg", "Jxl", "Heif"}

\* One image file: its format and orientation, the size its header declares,
\* whether the HEIF decoder pads the rows, and the size of its embedded
\* preview (<<>> without one); its metadata is readable.
InitBuffer ==
    /\ input \in [image : [path : {1}, format : Formats, orientation : Orientations],
                  width : 1..MaxDim, height : 1..MaxDim, padded : BOOLEAN,
                  preview : {<<>>} \cup ((1..MaxDim) \X (1..MaxDim))]
    /\ rating_on_disk = [image \in {input.image} |-> File(0)]
    /\ NothingBuilt

\* load_image(&image) on the file
LoadImageBuffer ==
    /\ pc = "main" /\ ~panicked
    /\ last' = [op |-> "load_image", buf |-> load_image_buffer(input)]
    /\ UNCHANGED <<input, image_texture, available_images, current_image_id,
                   current_image_path, loaded_images, loaded_images_thumbnails,
                   currently_loading, pool_queue, pool_active, loader_channel,
                   rating_on_disk, panicked, pc, submitted>>

\* load_thumbnail(&image) on the file
LoadThumbnailBuffer ==
    /\ pc = "main" /\ ~panicked
    /\ last' = [op |-> "load_thumbnail", buf |-> load_thumbnail_buffer(input)]
    /\ UNCHANGED <<input, image_texture, available_images, current_image_id,
                   current_image_path, loaded_images, loaded_images_thumbnails,
                   currently_loading, pool_queue, pool_active, loader_channel,
                   rating_on_disk, panicked, pc, submitted>>

NextBuffer ==
    \/ LoadImageBuffer
    \/ LoadThumbnailBuffer

SpecBuffer == InitBuffer /\ [][NextBuffer]_vars

\* Jobs that all complete, in any order, while the consumer navigates by small
\* steps and drains in as many calls as it likes.
NextOrder ==
    \/ \E change \in (-MaxStep)..MaxStep : NextImage(change)
    \/ CheckCall
    \/ CheckRecv
    \/ CheckReturn
    \/ WorkerStart
    \/ \E path \in DOMAIN pool_active : WorkerSend(path)

SpecOrder == InitNav /\ [][NextOrder]_vars

\* A catalog with more entries than the pool has workers, walked forward by
\* single steps and window by window.  The schedules are restricted: the running jobs complete in the order
\* of their identities, no job panics, and the consumer does not drain.
InitPool == InitFor({PoolLen})

PoolSteps == {1, PRELOAD_NEXT_IMAGE_N}

Running == {path \in DOMAIN pool_active : pool_active[path] > 0}

NextPool ==
    \/ \E change \in PoolSteps : NextImage(change)
    \/ WorkerStart
    \/ \E path \in Running :
          /\ \A other \in Running : path <= other
          /\ WorkerSend(path)

SpecPool == InitPool /\ [][NextPool]_vars

TypeOK ==
    /\ current_image_id \in Nat
    /\ currently_loading \subseteq Range(available_images)
    /\ DOMAIN loaded_images \subseteq Range(available_images)
    /\ pc \in {"main", "idle", "draining"}

\* ---- properties ----
\* decode jobs for an identity that are queued, running or waiting in the channel
JobsFor(id) ==
    Occurrences(pool_queue, id) + pool_active[id]
        + Cardinality({i \in 1..Len(loader_channel) : loader_channel[i][1] = id})

Catalog == Range(available_images)

\* C1: however often request_load is reached for an identity that is in flight
\* (directly, through next_image or through the prefetch), exactly one decode
\* job has been submitted for it and at most one is in the pipeline.
C1_OneJobPerInFlightIdentity ==
    \A id \in currently_loading : submitted[id] = 1 /\ JobsFor(id) <= 1

\* a request_load call has just hit an identity whose job is still in the pipeline
C1_Witness ==
    /\ last.op \in {"request_load", "next_image"}
    /\ \E id \in last.hits : id \in currently_loading /\ JobsFor(id) = 1

\* C2: an identity is in currently_loading exactly when a decode job for it is
\* queued, running, or finished with its completion still in the channel.
C2_InFlightIffJobPending ==
    \A id \in Catalog : id \in currently_loading <=> JobsFor(id) >= 1

\* C3: after a successful set_rating(r), get_current_rating() returns r whichever
\* tier holds the current identity, and the call submits no decode job.
C3_RatingReadBack ==
    /\ [](last.op = "set_rating" /\ last.ok =>
            /\ get_current_rating_unwraps(loaded_images, loaded_images_thumbnails,
                                          current_image_path)
            /\ get_current_rating(loaded_images, loaded_images_thumbnails,
                                  current_image_path) = last.arg)
    /\ [][(\E r \in Ratings : SetRating(r)) =>
            submitted' = submitted /\ pool_queue' = pool_queue]_vars

\* set_rating succeeded on an identity that only the thumbnail tier holds, with
\* its full decode still in flight
C3_Witness ==
    /\ last.op = "set_rating" /\ last.ok
    /\ current_image_path \notin DOMAIN loaded_images
    /\ current_image_path \in currently_loading
    /\ loaded_images_thumbnails[current_image_path].rating = last.arg

\* C4: the rating of every full-cache entry and of every thumbnail-cache entry
\* equals the rating stored in the file.
C4_RatingConsistent ==
    \A id \in Catalog :
        /\ id \in DOMAIN loaded_images => loaded_images[id].rating = get_tag_numeric(rating_on_disk[id])
        /\ id \in DOMAIN loaded_images_thumbnails =>
               loaded_images_thumbnails[id].rating = get_tag_numeric(rating_on_disk[id])

\* C5: the cursor stays within [0, length-1] whatever the deltas.
C5_CursorInRange ==
    0 <= current_image_id /\ current_image_id <= Len(available_images) - 1

\* next_image returned after an extreme delta on a catalog of several images
C5_Witness ==
    /\ last.op = "next_image" /\ ~panicked
    /\ last.far
    /\ Len(available_images) > 1
    /\ current_image_id \in {0, Len(available_images) - 1}

\* C6: the thumbnail cache holds every catalog identity, so get_thumbnail
\* returns the cached entry without decoding and get_current_rating's unwrap
\* never fails.
C6_ThumbnailAlwaysAvailable ==
    /\ Catalog \subseteq DOMAIN loaded_images_thumbnails
    /\ last.op = "get_thumbnail" =>
           ~last.decoded /\ last.result = loaded_images_thumbnails[current_image_path]
    /\ get_current_rating_unwraps(loaded_images, loaded_images_thumbnails,
                                  current_image_path)
    /\ last.op = "get_current_rating" => ~panicked

\* get_thumbnail has served an image away from the start whose full buffer is
\* not cached
C6_Witness ==
    /\ last.op = "get_thumbnail"
    /\ current_image_id > 0
    /\ current_image_path \notin DOMAIN loaded_images
    /\ last.result.pixels = <<current_image_path, "thumbnail">>

\* get_current_image() of the state, and of the next state of a step
CurrentFull == get_current_image(loaded_images, current_image_path)

CurrentFullNext == get_current_image(loaded_images', current_image_path')

\* a step of check_loaded_images that receives the completion of the current identity
ReceivesCurrent ==
    /\ pc = "draining"
    /\ loader_channel # <<>>
    /\ Head(loader_channel)[1] = current_image_path
    /\ loader_channel' = Tail(loader_channel)

\* C7: when next_image lands on an identity whose full buffer is not cached the
\* identity is in flight; get_current_image() stays "not ready" until a
\* check_loaded_images step receives that identity's completion, returns that
\* buffer from then on, and the thumbnail of the current identity is there
\* throughout.
C7_NotReadyUntilDrained ==
    /\ [](/\ (last.op = "next_image" /\ ~panicked /\ CurrentFull = <<>>)
                => current_image_path \in currently_loading
          /\ current_image_path \in DOMAIN loaded_images_thumbnails
          /\ loaded_images_thumbnails[current_image_path].pixels
                 = <<current_image_path, "thumbnail">>
          /\ last.op = "get_thumbnail" =>
                 last.result = loaded_images_thumbnails[current_image_path])
    /\ [][current_image_path' = current_image_path =>
            /\ (CurrentFull = <<>> /\ CurrentFullNext # <<>>) => ReceivesCurrent
            /\ ReceivesCurrent => CurrentFullNext = <<Head(loader_channel)[2]>>
            /\ CurrentFull # <<>> => CurrentFullNext = CurrentFull]_vars

\* the user moved to the first image beyond the initial prefetch window, its load
\* was requested by next_image, and a check_loaded_images call has received it
C7_Witness ==
    /\ pc = "draining"
    /\ current_image_id = PRELOAD_NEXT_IMAGE_N
    /\ current_image_path \in last.entry.currently_loading
    /\ last.entry.current_image_id = current_image_id
    /\ CurrentFull = <<[pixels |-> <<current_image_path, "full">>,
                        rating |-> get_rating(rating_on_disk, current_image_path)]>>

\* identities at catalog indices cursor .. min(cursor + 16, length) - 1
Window(cursor) ==
    {available_images[i] :
        i \in (cursor + 1)..Min(cursor + PRELOAD_NEXT_IMAGE_N, Len(available_images))}

\* C8: right after new and after every next_image, every identity of the window
\* is cached or in flight, and the call submitted jobs for window identities only.
C8_PrefetchWindow ==
    (last.op \in {"new", "next_image"} /\ ~panicked) =>
        /\ Window(current_image_id) \subseteq (DOMAIN loaded_images) \cup currently_loading
        /\ Range(last.jobs) \subseteq Window(current_image_id)

\* next_image submitted a job while the window ends before the catalog does and
\* holds both cached and in-flight identities
C8_Witness ==
    /\ last.op = "next_image" /\ ~panicked
    /\ current_image_id > 0
    /\ current_image_id + PRELOAD_NEXT_IMAGE_N < Len(available_images)
    /\ last.jobs # <<>>
    /\ \E id \in Window(current_image_id) : id \in DOMAIN loaded_images
    /\ \E id \in Window(current_image_id) : id \in currently_loading

\* C9: when check_loaded_images returns, every completion that was in the
\* channel at its call is in the full cache under its identity, that identity is
\* no longer in flight, and the completion is no longer in the channel.
C9_DrainsEverythingPending ==
    [][(pc = "draining" /\ pc' = "idle") =>
        \A i \in 1..Len(last.entry.loader_channel) :
            LET msg == last.entry.loader_channel[i]
            IN /\ msg[1] \in DOMAIN loaded_images'
               /\ loaded_images'[msg[1]] = msg[2]
               /\ msg[1] \notin currently_loading'
               /\ \A j \in 1..Len(loader_channel') : loader_channel'[j] # msg]_vars

\* check_loaded_images has returned from a call that found two or more completions
C9_Witness ==
    /\ last.op = "check_loaded_images" /\ last.returned
    /\ last.pending >= 2
    /\ last.iters >= 2

\* C10: check_loaded_images never waits: inside the call a step is always
\* possible, it iterates at most once per identity in flight at the call, and a
\* call that receives nothing leaves caches, in-flight set and cursor as they were.
C10_DrainNeverBlocks ==
    /\ [](/\ pc = "draining" => ENABLED (CheckRecv \/ CheckReturn)
          /\ pc = "draining" => last.iters <= Cardinality(last.entry.currently_loading)
          /\ (last.op = "check_loaded_images" /\ last.returned) =>
                 last.iters <= last.in_flight)
    /\ [][(pc = "draining" /\ pc' = "idle" /\ last.iters = 0) =>
            /\ loaded_images' = last.entry.loaded_images
            /\ loaded_images_thumbnails' = last.entry.loaded_images_thumbnails
            /\ currently_loading' = last.entry.currently_loading
            /\ current_image_id' = last.entry.current_image_id]_vars

\* a call has returned after receiving a completion that a worker sent while
\* the call was running
C10_Witness ==
    /\ last.op = "check_loaded_images" /\ last.returned
    /\ last.iters > last.pending
    /\ last.iters = last.in_flight

\* C11: a render frame drains the completion channel: when a frame with no key
\* press finds the completion of the current identity waiting in the channel,
\* the frame ends with that full-resolution buffer as the displayed texture.
C11_FrameShowsCompletedImage ==
    (last.op = "RedrawRequested" /\ last.key = "None" /\ last.completed /\ ~panicked) =>
        /\ current_image_path \in DOMAIN loaded_images
        /\ image_texture = <<current_image_path, "full">>

\* C12: a request_load or next_image step changes nothing about an identity
\* that is already cached or in flight: no job is submitted for it, its
\* membership of the in-flight set, its jobs in the pool queue and both caches
\* stay as they were; request_load of such an identity changes no store state.
C12_ReRequestIsNoOp ==
    [][/\ ((\E change \in Deltas : NextImage(change)) \/
           (\E path \in Catalog : RequestLoad(path))) =>
              /\ loaded_images' = loaded_images
              /\ loaded_images_thumbnails' = loaded_images_thumbnails
              /\ \A id \in (DOMAIN loaded_images) \cup currently_loading :
                    /\ submitted'[id] = submitted[id]
                    /\ id \in currently_loading' <=> id \in currently_loading
                    /\ Occurrences(pool_queue', id) = Occurrences(pool_queue, id)
       /\ \A path \in (DOMAIN loaded_images) \cup currently_loading :
              RequestLoad(path) =>
                  UNCHANGED <<currently_loading, pool_queue, pool_active, submitted,
                              loader_channel, current_image_id>>]_vars

\* next_image with a delta of extreme size has returned at cursor 0: the
\* prefetch reached the cached current identity and an in-flight one, and no
\* job was submitted
C12_Witness ==
    /\ last.op = "next_image" /\ last.far /\ ~panicked
    /\ current_image_id = 0
    /\ Len(available_images) > 1
    /\ current_image_path \in last.hits \cap DOMAIN loaded_images
    /\ last.hits \cap currently_loading # {}
    /\ last.jobs = <<>>

\* C13: with a fair pool and check_loaded_images called again and again, every
\* identity in the in-flight set eventually is out of it and in the full cache,
\* wherever the cursor goes meanwhile.
C13_InFlightEventuallyCached ==
    \A id \in 1..MaxNavImages :
        (id \in currently_loading) ~>
            (id \notin currently_loading /\ id \in DOMAIN loaded_images)

\* C14: a decode job that fails delivers an outcome for its identity to the
\* consumer: the step in which the job fails sends a message tagged with the
\* identity on the completion channel.
C14_FailureDelivered ==
    [][\A path \in Catalog :
          WorkerPanic(path) =>
              /\ Len(loader_channel') = Len(loader_channel) + 1
              /\ loader_channel'[Len(loader_channel')][1] = path]_vars

\* C16: a set_rating call whose write fails returns to its caller: the process
\* goes on, and the call is the last thing that happened to the consumer.
C16_WriteFailureReported ==
    (last.op = "set_rating" /\ ~last.ok) => ~panicked

\* C15: when the scan of the directory returns no file, new does not crash.
C15_EmptyCatalogReported ==
    (last.op = "new" /\ last.scanned /\ load_available_images(input).images = <<>>) =>
        ~panicked

\* the entries of a directory that are regular files with one of the five
\* supported extensions in any letter case
Matching(dir) ==
    {i \in DOMAIN dir :
        /\ dir[i].is_file
        /\ to_ascii_lowercase(dir[i].extension) \in {"jpg", "jpeg", "heic", "heif", "jxl"}}

FormatTag(extension) ==
    IF to_ascii_lowercase(extension) \in {"jpg", "jpeg"} THEN "Jpg"
    ELSE IF to_ascii_lowercase(extension) \in {"heic", "heif"} THEN "Heif"
    ELSE "Jxl"

\* the result is one identity per entry of the set, with its format tag, in
\* ascending order of the names
IsCatalogOf(result, dir, entries) ==
    /\ Len(result) = Cardinality(entries)
    /\ \A k \in 1..(Len(result) - 1) : result[k].path < result[k + 1].path
    /\ Range(result) =
           {[path |-> dir[i].name, format |-> FormatTag(dir[i].extension)] : i \in entries}

\* C18: on a directory whose matching files all have readable metadata,
\* load_available_images returns exactly the matching files, tagged and sorted.
C18_ScanReturnsMatchingFiles ==
    (/\ last.op = "load_available_images"
     /\ \A i \in Matching(input) : input[i].metadata) =>
        /\ last.ok
        /\ IsCatalogOf(last.result, input, Matching(input))

\* C19: on a directory with a matching file whose metadata cannot be read (and
\* where every file has an extension), the scan completes and returns the other
\* matching files in order.
C19_ScanSkipsUnreadable ==
    (/\ last.op = "load_available_images"
     /\ \E i \in Matching(input) : ~input[i].metadata
     /\ \A i \in DOMAIN input : ~get_format_panics(input[i])) =>
        /\ last.ok
        /\ IsCatalogOf(last.result, input, {i \in Matching(input) : input[i].metadata})

\* C17: reading the rating of a file whose metadata cannot be opened, or that
\* has no rating tag, completes and yields 0, in get_rating and in load_image.
C17_RatingReadFailureIsZero ==
    (/\ last.op \in {"get_rating", "load_image"}
     /\ (~rating_on_disk[input.image].readable \/ rating_on_disk[input.image].tags = <<>>)) =>
        /\ last.ok
        /\ ~panicked
        /\ last.rating = 0

\* C20: the dimensions of a decoded JPEG are (height, width) of the raw decode
\* for Rotate90, Rotate270, Rotate90FlipH and Rotate270FlipH, and (width, height)
\* for NoTransforms, Rotate180, FlipHorizontal and FlipVertical.
C20_JpegDimensions ==
    (last.op = "load_image" /\ last.ok) =>
        LET o == input.image.orientation
        IN /\ (o = "Rotate90" \/ o = "Rotate270" \/ o = "Rotate90FlipH" \/ o = "Rotate270FlipH")
                  => (last.width = input.height /\ last.height = input.width)
           /\ (o = "NoTransforms" \/ o = "Rotate180" \/ o = "FlipHorizontal" \/ o = "FlipVertical")
                  => (last.width = input.width /\ last.height = input.height)

\* a JPEG that is not square and is stored transposed across the anti-diagonal
\* has been decoded
C20_Witness ==
    /\ last.op = "load_image" /\ last.ok
    /\ input.image.orientation = "Rotate270FlipH"
    /\ input.width # input.height
    /\ last.width = input.height /\ last.height = input.width

\* C21: a step of a worker leaves both caches and the in-flight set alone, and
\* a job that ends has sent exactly one message, its identity with the decoded
\* buffer, on the completion channel.
C21_WorkersOnlySend ==
    [][/\ (WorkerStart \/ \E path \in Catalog : WorkerSend(path) \/ WorkerPanic(path)) =>
              UNCHANGED <<loaded_images, loaded_images_thumbnails, currently_loading,
                          current_image_id, current_image_path>>
       /\ \A path \in Catalog :
              (pool_active[path] > 0 /\ pool_active'[path] = pool_active[path] - 1) =>
                  loader_channel' =
                      Append(loader_channel, <<path, load_image(rating_on_disk, path)>>)]_vars

\* every submitted job has completed and every completion has been drained
Quiescent ==
    /\ pc = "idle"
    /\ pool_queue = <<>>
    /\ Active = 0
    /\ loader_channel = <<>>

\* C22: whatever the order of the completions and however they are split over
\* check_loaded_images calls, a cached entry is the buffer of its own identity
\* and is no longer in flight, and once everything is drained the full cache
\* maps the first entry and every submitted identity to its buffer and the
\* in-flight set is empty.
C22_OrderIndependent ==
    /\ \A id \in DOMAIN loaded_images :
           /\ loaded_images[id] = load_image(rating_on_disk, id)
           /\ id \notin currently_loading
    /\ Quiescent =>
           /\ currently_loading = {}
           /\ loaded_images =
                  [id \in {available_images[1]} \cup {i \in Catalog : submitted[i] >= 1} |->
                      load_image(rating_on_disk, id)]

\* a check_loaded_images call has returned after draining part of the jobs in
\* flight: an identity is cached while one submitted before it is still in flight
C22_Witness ==
    /\ last.op = "check_loaded_images" /\ last.returned
    /\ last.iters >= 1 /\ last.iters < last.in_flight
    /\ \E id \in DOMAIN loaded_images :
           \E earlier \in currently_loading : 1 < earlier /\ earlier < id

\* C23: the current identity is the catalog entry at the cursor in every state,
\* and only next_image changes the cursor or the current identity.
C23_CurrentIsEntryAtCursor ==
    /\ [](/\ current_image_id + 1 \in DOMAIN available_images
          /\ current_image_path = available_images[current_image_id + 1])
    /\ [][(current_image_id' # current_image_id \/ current_image_path' # current_image_path)
            => \E change \in Deltas : NextImage(change)]_vars

\* the cursor has been moved off the first entry and a rating was written there
C23_Witness ==
    /\ last.op = "set_rating" /\ last.ok
    /\ current_image_id > 0
    /\ current_image_path = available_images[current_image_id + 1]
    /\ current_image_path # available_images[1]

\* C24: until the consumer makes its first call after new, the cursor is 0, the
\* current identity is the first catalog entry, the full cache holds exactly
\* that entry, no job was ever submitted for it, and the in-flight set is the
\* entries at indices 1 .. min(16, length) - 1.
C24_StateAfterNew ==
    (last.op = "new" /\ ~panicked) =>
        /\ current_image_id = 0
        /\ current_image_path = available_images[1]
        /\ loaded_images = [id \in {available_images[1]} |->
                               load_image(rating_on_disk, available_images[1])]
        /\ submitted[available_images[1]] = 0
        /\ currently_loading =
               {available_images[i] :
                   i \in 2..Min(PRELOAD_NEXT_IMAGE_N, Len(available_images))}
        /\ \A id \in Catalog : submitted[id] = IF id \in currently_loading THEN 1 ELSE 0

\* new has returned on a catalog longer than the prefetch window and the pool
\* has finished the first of its jobs
C24_Witness ==
    /\ last.op = "new"
    /\ Len(available_images) > PRELOAD_NEXT_IMAGE_N
    /\ Cardinality(currently_loading) = PRELOAD_NEXT_IMAGE_N - 1
    /\ loader_channel # <<>>

\* max(0, min(len - 1, c + d)) with c + d an unbounded integer, for a cursor c
\* in 0..len-1 (written so that no intermediate value leaves the 32-bit range)
ClampedSum(c, d, len) ==
    IF d >= 0
    THEN IF d >= (len - 1) - c THEN len - 1 ELSE c + d
    ELSE clamp(c + d, 0, len - 1)

\* C25: next_image(d) from cursor c returns with the cursor at
\* max(0, min(length - 1, c + d)), the sum taken over the integers, for every
\* 32-bit delta.
C25_CursorIsClampedSum ==
    [][\A change \in Deltas :
          NextImage(change) =>
              /\ ~panicked'
              /\ current_image_id' =
                     ClampedSum(current_image_id, change, Len(available_images))]_vars

\* the stage of an identity's full-resolution buffer
Unrequested(id) == id \notin DOMAIN loaded_images /\ id \notin currently_loading

\* C26: the full cache and the in-flight set are disjoint, and in every step an
\* identity stays in its stage or moves forward: an unrequested one may only
\* become in flight, an in-flight one may only become cached, a cached one
\* stays cached.
C26_LifecycleForward ==
    /\ []((DOMAIN loaded_images) \cap currently_loading = {})
    /\ [][\A id \in Catalog :
             /\ Unrequested(id) => id \notin DOMAIN loaded_images'
             /\ id \in currently_loading =>
                    (id \in currently_loading' \/ id \in DOMAIN loaded_images')
             /\ id \in DOMAIN loaded_images =>
                    /\ id \in DOMAIN loaded_images'
                    /\ id \notin currently_loading']_vars

\* identities of all three stages at once: one that was submitted and is now
\* cached, one in flight, one never requested
C26_Witness ==
    /\ \E id \in DOMAIN loaded_images : submitted[id] = 1
    /\ currently_loading # {}
    /\ \E id \in Catalog : Unrequested(id) /\ submitted[id] = 0

\* C27: in every state, whatever calls were made so far, at most one decode job
\* has ever been submitted for any identity and none for the first catalog entry.
C27_AtMostOneJobEver ==
    /\ \A id \in Catalog : submitted[id] <= 1
    /\ submitted[available_images[1]] = 0

\* every other identity has been decoded by the pool and cached, a rating was
\* written, and a later request_load or next_image reached cached identities
\* again without submitting a job
C27_Witness ==
    /\ last.op \in {"request_load", "next_image"} /\ ~panicked
    /\ last.jobs = <<>>
    /\ Len(available_images) > 1
    /\ available_images[1] \in last.hits
    /\ \A id \in Catalog \ {available_images[1]} :
           submitted[id] = 1 /\ id \in DOMAIN loaded_images /\ id \in last.hits
    /\ \E id \in Catalog : get_tag_numeric(rating_on_disk[id]) # id % (MaxRating + 1)

\* C28: a get_current_rating step returns the rating of the current identity's
\* full-cache entry when there is one and of its thumbnail entry otherwise,
\* and changes nothing in the store.
C28_RatingFromFullFirst ==
    [][GetCurrentRating =>
          /\ last'.result =
                 IF current_image_path \in DOMAIN loaded_images
                 THEN loaded_images[current_image_path].rating
                 ELSE loaded_images_thumbnails[current_image_path].rating
          /\ UNCHANGED <<available_images, current_image_id, current_image_path,
                         loaded_images, loaded_images_thumbnails, currently_loading,
                         pool_queue, pool_active, loader_channel, rating_on_disk,
                         panicked, submitted>>]_vars

\* get_current_rating has answered from a full entry whose rating differs from
\* the thumbnail entry's
C28_Witness ==
    /\ last.op = "get_current_rating" /\ ~panicked
    /\ current_image_path \in DOMAIN loaded_images
    /\ loaded_images[current_image_path].rating
           # loaded_images_thumbnails[current_image_path].rating
    /\ last.result = loaded_images[current_image_path].rating

\* a cache after a step differs from the cache before it at most in the rating
\* of the entry of one identity
OnlyRatingOf(before, after, path) ==
    /\ DOMAIN after = DOMAIN before
    /\ \A id \in DOMAIN before :
           /\ after[id].pixels = before[id].pixels
           /\ id # path => after[id] = before[id]

\* C29: a set_rating step leaves the cursor, the current identity, the in-flight
\* set, the pool and the channel as they were, submits no job, and changes in
\* the two caches nothing but the rating of the current identity's entries.
C29_SetRatingFrame ==
    [][(\E rating \in Ratings : SetRating(rating)) =>
          /\ UNCHANGED <<available_images, current_image_id, current_image_path,
                         currently_loading, pool_queue, pool_active, loader_channel,
                         submitted>>
          /\ OnlyRatingOf(loaded_images, loaded_images', current_image_path)
          /\ OnlyRatingOf(loaded_images_thumbnails, loaded_images_thumbnails',
                          current_image_path)]_vars

\* set_rating has changed the rating of the current identity in both tiers
\* while another identity is cached in both tiers with a different rating
C29_Witness ==
    /\ last.op = "set_rating" /\ last.ok
    /\ current_image_path \in DOMAIN loaded_images
    /\ loaded_images[current_image_path].rating = last.arg
    /\ loaded_images_thumbnails[current_image_path].rating = last.arg
    /\ get_tag_numeric(rating_on_disk[current_image_path])
           # current_image_path % (MaxRating + 1)
    /\ \E id \in (DOMAIN loaded_images) \ {current_image_path} :
           /\ loaded_images[id].rating # last.arg
           /\ loaded_images_thumbnails[id].rating # last.arg

C32_FormatClassificationTotal ==
    last.op = "load_available_images" =>
        /\ \A i \in DOMAIN input :
               /\ ~get_format_panics(input[i])
               /\ get_format(input[i]) =
                      IF i \in Matching(input) THEN <<FormatTag(input[i].extension)>>
                      ELSE <<>>
        /\ (\A i \in Matching(input) : input[i].metadata) => last.ok

\* C33: every decode path returns a buffer of exactly width * height pixels:
\* load_image for JPEG (after the orientation swap), JPEG-XL and HEIF, and
\* load_thumbnail for HEIF, the embedded preview and the resized full image.
C33_BufferLengthIsArea ==
    last.op \in {"load_image", "load_thumbnail"} =>
        last.buf.rgba_buffer.len = last.buf.width * last.buf.height

\* C35: when a function that reinterprets a byte buffer as pixels returns
\* (load_image for JPEG-XL and JPEG, image_to_rgba_buffer, load_thumbnail_exif),
\* the returned pixel vector is the only owner of its allocation and the
\* allocation has not been freed.
C35_SingleOwnerAtReturn ==
    (last.op \in {"load_image", "load_thumbnail"} /\ input.image.format # "Heif") =>
        LET a == last.buf.heap[last.buf.rgba_buffer.ptr]
        IN /\ Cardinality(a.owners) = 1
           /\ a.freed = 0

\* C34: set_rating never saves the current identity's file while a worker is
\* running the decode job that reads that file.
C34_NoWriteDuringDecode ==
    [][(last'.op = "set_rating" /\ last'.ok /\ rating_on_disk' # rating_on_disk) =>
           pool_active[current_image_path] = 0]_vars

====
